---------------------------- MODULE Spec2Model ----------------------------
(***************************************************************************)
(* A model of the cross-section comparison tool gxscomp                    *)
(* (src/src/Apps/gXSecComp.cxx), of the NuValidator graph aggregator       *)
(* MultiGraph (src/src/NuValidator/DBUtils/MultiGraph.cxx) and of the      *)
(* popup dialogs of the NuValidator data selection tab                     *)
(* (src/src/NuValidator/NuVldGUI/vDataSelectionTab.cxx).                   *)
(*                                                                         *)
(* A graph (TGraph) is a record [null, pts]: null is TRUE for the null     *)
(* pointer, pts is the sequence of its points [x, y].  Indices of points   *)
(* are the 0-based indices of the code; X(gr, i) is gr->GetX()[i].         *)
(* The coordinates are small integers, on which the double arithmetic of   *)
(* the code is exact; a value computed by Eval is a rational <<n, d>>.     *)
(***************************************************************************)
EXTENDS Integers, Sequences, FiniteSets, TLC

VARIABLES
  \* DrawRatio called on its own; r_evals counts its Eval calls
  r_pc, r_gr0, r_gr1, r_ratio, r_evals,
  \* TrimGraph, one decade of its while loop per step
  t_pc, t_gr, t_K, t_fp, t_lp, t_remv, t_out, t_oob, t_rates,
  \* MultiGraph: _mgraph, _legend_entries, and the attributes of the graph
  \* objects its entries point to; mg_ret is what the last call returned
  mg_pc, mg_mgraph, mg_legend_entries, mg_attr, mg_ret,
  \* gxscomp: the position in main, the command line, the globals of the
  \* program under their own names
  pc, cmd,
  gOptXSecFilename_curr, gOptXSecFilename_ref0, gOptOutputFilename, gOptHaveRef,
  gLabelCurr, gLabelRef0,
  gXSecFile_curr, gXSecFile_ref0, gDirName, gDirCurr, gDirRef0,
  gCurrProbeLbl, gCurrProbePdg, gCurrProbeIsNu, gCurrProbeIsNuBar,
  gCurrTargetLbl, gCurrTargetHasP, gCurrTargetHasN, gCurrTargetIsFreeNuc,
  \* the output file gPS: whether it is open, its NewPage and Close calls
  gPS,
  \* the loop index of MakePlots, and the Draw calls MakePlotsCurrDir has
  \* still to make for the current directory
  idir, todo,
  \* the pages Draw completed, <<idir, plot>> each; the graphs that Draw
  \* calls allocated and that are not deleted; the last Draw call
  pages, live, last,
  \* vDataSelectionTab: the data-base connection fDBC, the members
  \* fPopupDialogLAM and fPopupDialog, the dialogs that are open, how many
  \* dialogs and message boxes were made, what the last Bundle call returned
  tab_pc, fDBC, fPopupDialogLAM, fPopupDialog, dialogs, ndialogs, nmsgbox, tab_ret

ratioVars == <<r_pc, r_gr0, r_gr1, r_ratio, r_evals>>
trimVars  == <<t_pc, t_gr, t_K, t_fp, t_lp, t_remv, t_out, t_oob, t_rates>>
mgVars    == <<mg_pc, mg_mgraph, mg_legend_entries, mg_attr, mg_ret>>
optVars   == <<gOptXSecFilename_curr, gOptXSecFilename_ref0, gOptOutputFilename,
               gOptHaveRef, gLabelCurr, gLabelRef0>>
fileVars  == <<gXSecFile_curr, gXSecFile_ref0>>
dirVars   == <<gDirName, gDirCurr, gDirRef0>>
probeVars == <<gCurrProbeLbl, gCurrProbePdg, gCurrProbeIsNu, gCurrProbeIsNuBar>>
targetVars == <<gCurrTargetLbl, gCurrTargetHasP, gCurrTargetHasN, gCurrTargetIsFreeNuc>>
pageVars  == <<gPS, pages, live, last>>
runVars   == <<pc, cmd, optVars, fileVars, dirVars, probeVars, targetVars, pageVars,
               idir, todo>>
tabVars   == <<tab_pc, fDBC, fPopupDialogLAM, fPopupDialog, dialogs, ndialogs, nmsgbox,
               tab_ret>>
vars      == <<ratioVars, trimVars, mgVars, runVars, tabVars>>

---------------------------------------------------------------------------
(* Bounds of the model *)

\* points of a curve handed to DrawRatio
MaxRatioPts == 2
\* points of a curve handed to TrimGraph
MaxTrimPts == 4
\* AddGraph calls on one MultiGraph
MaxGraphs == 11
\* AddGraph calls of one graph object on one MultiGraph: one more than the
\* colour and marker combinations
MaxFormatted == 141
\* directories of the current cross-section file
MaxDirs == 2
\* points of the dense one-decade curve
DensePts == 23
\* points of the fine one-decade curve
FinePts == 94
\* the max_np_per_decade that Draw hands to TrimGraph
DrawMaxNpPerDecade == 20

\* x and y values of the curves handed to DrawRatio
RatioXs == {1, 2, 3}
RatioYs == {0, 1, 2}
\* x values of the curves handed to TrimGraph: two decades above 1, a
\* repeated value, zero and a negative value
TrimXs == {-1, 0, 1, 2, 5, 10, 100}
\* max_np_per_decade values handed to TrimGraph with the short curves
TrimKs == {-2, -1, 0, 1, 2}

---------------------------------------------------------------------------
(* Graphs *)

NullGraph == [null |-> TRUE, pts |-> <<>>]
Graph(pts) == [null |-> FALSE, pts |-> pts]
Pt(x, y) == [x |-> x, y |-> y]

GetN(gr) == Len(gr.pts)
X(gr, i) == gr.pts[i + 1].x
Y(gr, i) == gr.pts[i + 1].y

\* the sequences over S of length at most n
SeqsUpTo(S, n) == UNION {[1..k -> S] : k \in 0..n}

IsSortedX(pts) == \A i \in 1..(Len(pts) - 1) : pts[i].x <= pts[i + 1].x

---------------------------------------------------------------------------
(* Rationals <<n, d>>, d > 0, in lowest terms *)

Abs(a) == IF a < 0 THEN -a ELSE a

RECURSIVE Gcd(_, _)
Gcd(a, b) == IF b = 0 THEN a ELSE Gcd(b, a % b)

Rat(n, d) ==
  LET s == IF d < 0 THEN -1 ELSE 1
      g == Gcd(Abs(n), Abs(d))
  IN  <<(s * n) \div g, (s * d) \div g>>

RatDiv(a, b) == Rat(a[1] * b[2], a[2] * b[1])
RatIsZero(a) == a[1] = 0

---------------------------------------------------------------------------
(* TGraph::Eval(x), linear interpolation, as DrawRatio calls it *)

\* the neighbour search of Eval over the points i..np-1: low and up are the
\* nearest points below and above x, low2 and up2 the ones they replaced
\* (-1: none yet); hit is the first point met whose x equals x
RECURSIVE EvalScan(_, _, _, _)
EvalScan(gr, x, i, st) ==
  IF i >= GetN(gr) \/ st.hit # -1 THEN st
  ELSE LET xi == X(gr, i)
           nx == IF xi < x
                   THEN IF st.low = -1 \/ xi > X(gr, st.low)
                          THEN [st EXCEPT !.low2 = st.low, !.low = i]
                          ELSE IF st.low2 = -1 THEN [st EXCEPT !.low2 = i] ELSE st
                 ELSE IF xi > x
                   THEN IF st.up = -1 \/ xi < X(gr, st.up)
                          THEN [st EXCEPT !.up2 = st.up, !.up = i]
                          ELSE IF st.up2 = -1 THEN [st EXCEPT !.up2 = i] ELSE st
                 ELSE [st EXCEPT !.hit = i]
       IN  EvalScan(gr, x, i + 1, nx)

Eval(gr, x) ==
  IF GetN(gr) = 0 THEN Rat(0, 1)
  ELSE IF GetN(gr) = 1 THEN Rat(Y(gr, 0), 1)
  ELSE
    LET st  == EvalScan(gr, x, 0, [low |-> -1, low2 |-> -1, up |-> -1, up2 |-> -1, hit |-> -1])
        \* x outside the abscissa interval: extrapolate from the two nearest
        up1  == IF st.up = -1 THEN st.low ELSE st.up
        low1 == IF st.up = -1 THEN st.low2 ELSE st.low
        low  == IF low1 = -1 THEN up1 ELSE low1
        up   == IF low1 = -1 THEN st.up2 ELSE up1
    IN  IF st.hit # -1 THEN Rat(Y(gr, st.hit), 1)
        ELSE IF X(gr, low) = X(gr, up) THEN Rat(Y(gr, low), 1)
        ELSE Rat(Y(gr, up) * (X(gr, low) - X(gr, up)) + (x - X(gr, up)) * (Y(gr, low) - Y(gr, up)),
                 X(gr, low) - X(gr, up))

---------------------------------------------------------------------------
(* DrawRatio: gr0 / gr1 at the points of gr0 *)

\* a mutant of RatioY: the two sentinel values exchanged
RatioY_SentinelsSwapped(e0, e1) ==
  IF ~RatIsZero(e0) /\ ~RatIsZero(e1) THEN RatDiv(e0, e1)
  ELSE IF ~RatIsZero(e0) THEN Rat(1, 1)
  ELSE Rat(-1, 1)

\* a mutant of RatioY: y[i] keeps its initial 0 when only gr1 evaluates to zero
RatioY_DenZeroLeftZero(e0, e1) ==
  IF ~RatIsZero(e0) /\ ~RatIsZero(e1) THEN RatDiv(e0, e1)
  ELSE IF ~RatIsZero(e0) THEN Rat(0, 1)
  ELSE Rat(1, 1)

\* a mutant of RatioY: the quotient taken the other way round
RatioY_Inverted(e0, e1) ==
  IF ~RatIsZero(e0) /\ ~RatIsZero(e1) THEN RatDiv(e1, e0)
  ELSE IF ~RatIsZero(e0) THEN Rat(-1, 1)
  ELSE Rat(1, 1)

\* a mutant of RatioY: -1 where both evaluations are zero
RatioY_BothZeroMinusOne(e0, e1) ==
  IF ~RatIsZero(e0) /\ ~RatIsZero(e1) THEN RatDiv(e0, e1)
  ELSE IF ~RatIsZero(e0) \/ RatIsZero(e1) THEN Rat(-1, 1)
  ELSE Rat(1, 1)

\* y[i] from the two evaluations e0 = gr0->Eval(x[i]), e1 = gr1->Eval(x[i])
RatioY(e0, e1) ==
  IF ~RatIsZero(e0) /\ ~RatIsZero(e1) THEN RatDiv(e0, e1)
  ELSE IF ~RatIsZero(e0) THEN Rat(-1, 1)
  ELSE Rat(1, 1)

\* a mutant of DrawRatio: an absent gr1 taken as the constant 1
DrawRatio_AbsentDenAsOne(gr0, gr1) ==
  IF gr0.null THEN NullGraph
  ELSE IF gr1.null THEN Graph([i \in 1..GetN(gr0) |-> Pt(X(gr0, i - 1), Rat(Y(gr0, i - 1), 1))])
  ELSE Graph([i \in 1..GetN(gr0) |->
                Pt(X(gr0, i - 1), RatioY(Eval(gr0, X(gr0, i - 1)), Eval(gr1, X(gr0, i - 1))))])

DrawRatio(gr0, gr1) ==
  IF gr0.null THEN NullGraph
  ELSE IF gr1.null THEN NullGraph
  ELSE Graph([i \in 1..GetN(gr0) |->
                Pt(X(gr0, i - 1), RatioY(Eval(gr0, X(gr0, i - 1)), Eval(gr1, X(gr0, i - 1))))])

\* the Eval calls DrawRatio makes on gr0 and on gr1: none before the two
\* null checks; then, for every point, gr0->Eval in the condition, gr1->Eval
\* behind the && where the first is non-zero, both again for the quotient,
\* or gr0->Eval again in the else branch
NoEvals == [gr0 |-> 0, gr1 |-> 0]
RECURSIVE EvalCallsFrom(_, _, _)
EvalCallsFrom(gr0, gr1, i) ==
  IF i >= GetN(gr0) THEN NoEvals
  ELSE LET e0 == Eval(gr0, X(gr0, i))
           e1 == Eval(gr1, X(gr0, i))
           rest == EvalCallsFrom(gr0, gr1, i + 1)
       IN  [gr0 |-> rest.gr0 + 2,
            gr1 |-> rest.gr1 + (IF RatIsZero(e0) THEN 0 ELSE IF RatIsZero(e1) THEN 1 ELSE 2)]
EvalCalls(gr0, gr1) ==
  IF gr0.null THEN NoEvals
  ELSE IF gr1.null THEN NoEvals
  ELSE EvalCallsFrom(gr0, gr1, 0)

\* the graphs handed to DrawRatio: null, or points of non-decreasing x
RatioGraphs ==
  {NullGraph} \cup
  {Graph(p) : p \in {q \in SeqsUpTo([x : RatioXs, y : RatioYs], MaxRatioPts) : IsSortedX(q)}}

RatioIdle ==
  /\ r_pc = "idle"
  /\ r_gr0 = NullGraph
  /\ r_gr1 = NullGraph
  /\ r_ratio = NullGraph
  /\ r_evals = NoEvals

RatioStart ==
  /\ r_pc = "call"
  /\ r_gr0 \in RatioGraphs
  /\ r_gr1 \in RatioGraphs
  /\ r_ratio = NullGraph
  /\ r_evals = NoEvals

DrawRatioCall ==
  /\ r_pc = "call"
  /\ r_ratio' = DrawRatio(r_gr0, r_gr1)
  /\ r_evals' = EvalCalls(r_gr0, r_gr1)
  /\ r_pc' = "done"
  /\ UNCHANGED <<r_gr0, r_gr1>>

---------------------------------------------------------------------------
(* TrimGraph *)

IntMax == 2147483647
IntMin == -IntMax - 1

\* a mutant of ScanLast: the scan stops before the first point beyond xmax
RECURSIVE ScanLast_StopsBefore(_, _, _)
ScanLast_StopsBefore(gr, fp, i) ==
  IF X(gr, i) > 10 * X(gr, fp) THEN i - 1
  ELSE IF i >= GetN(gr) - 1 THEN i
  ELSE ScanLast_StopsBefore(gr, fp, i + 1)

\* the last index lp the for loop of one decade reaches from fp: the first
\* point beyond xmax = 10 * x[fp] (the loop breaks on it, after lp = i), or
\* the last point of the graph
RECURSIVE ScanLast(_, _, _)
ScanLast(gr, fp, i) ==
  IF i >= GetN(gr) - 1 \/ X(gr, i) > 10 * X(gr, fp) THEN i
  ELSE ScanLast(gr, fp, i + 1)

\* a mutant of NDec: the first point of the decade counted as well
NDec_CountsFirst(gr, fp, lp) ==
  Cardinality({i \in fp..lp : X(gr, i) >= X(gr, fp) /\ X(gr, i) <= 10 * X(gr, fp)})

\* ndec: the points of fp..lp with xmin < x <= xmax
NDec(gr, fp, lp) ==
  Cardinality({i \in fp..lp : X(gr, i) > X(gr, fp) /\ X(gr, i) <= 10 * X(gr, fp)})

\* a mutant of KeepRates: the stride rounded up, ceil(ndec / K), for K > 0
KeepRates_RoundedUp(K, ndec) ==
  IF K > 0 THEN {(ndec + K - 1) \div K}
  ELSE IF K = 0 THEN {IntMin, IntMax, 0}
  ELSE IF ndec = 0 THEN {0}
  ELSE {-((ndec + (-K) - 1) \div (-K))}

\* the whole quotients q = ndec / K below 186 for which the binary64
\* value of 1. / (1. / q) lies below q: 1. / (1. / 93.) is 92.99999999999999
RoundedBelow == {93, 99, 105, 117, 123}

\* keep_rate = FloorNint(1. / ((double) K / (double) ndec)), computed when
\* ndec > K.  K > 0: floor(ndec / K), and one less where ndec / K is one of
\* the whole quotients of RoundedBelow (for ndec / K below 186).  K = 0:
\* 1. / 0. is +inf and its conversion to int is undefined; the builds give
\* INT_MIN, INT_MAX or 0.  K < 0: ndec = 0 gives 1. / -inf = -0. and the
\* rate 0, ndec > 0 gives the negative floor.
KeepRates(K, ndec) ==
  IF K > 0 THEN (IF ndec % K = 0 /\ (ndec \div K) \in RoundedBelow
                   THEN {(ndec \div K) - 1} ELSE {ndec \div K})
  ELSE IF K = 0 THEN {IntMin, IntMax, 0}
  ELSE IF ndec = 0 THEN {0}
  ELSE {-((ndec + (-K) - 1) \div (-K))}

\* ithrow % keep_rate is non-zero (C++ remainder: the sign of the dividend);
\* for keep_rate = 0 this is the outcome of a build whose division by zero
\* does not trap, where the remainder is ithrow itself (as it is for INT_MIN)
Thrown(ithrow, keep_rate) ==
  IF keep_rate = 0 \/ keep_rate = IntMin THEN ithrow # 0
  ELSE ithrow % Abs(keep_rate) # 0

\* remv after the marking loop over fp..lp with the stride keep_rate
MarkDecade(remv, fp, lp, keep_rate) ==
  [j \in 1..Len(remv) |->
     IF j - 1 >= fp /\ j - 1 <= lp /\ Thrown(j - 1 - fp, keep_rate) THEN TRUE
     ELSE IF j - 1 >= fp /\ j - 1 <= lp THEN FALSE
     ELSE remv[j]]

\* remv after the scanning loop over fp..lp alone (remv[i] = false)
ClearDecade(remv, fp, lp) ==
  [j \in 1..Len(remv) |-> IF j - 1 >= fp /\ j - 1 <= lp THEN FALSE ELSE remv[j]]

\* a mutant of KeptPts: the kept points copied last to first
RECURSIVE KeptPts_Reversed(_, _, _)
KeptPts_Reversed(gr, remv, i) ==
  IF i >= GetN(gr) THEN <<>>
  ELSE KeptPts_Reversed(gr, remv, i + 1) \o (IF remv[i + 1] THEN <<>> ELSE <<gr.pts[i + 1]>>)

\* the points of gr that remv does not mark, in order: the copy loops
RECURSIVE KeptPts(_, _, _)
KeptPts(gr, remv, i) ==
  IF i >= GetN(gr) THEN <<>>
  ELSE (IF remv[i + 1] THEN <<>> ELSE <<gr.pts[i + 1]>>) \o KeptPts(gr, remv, i + 1)

\* the while loop from fp on, for K > 0 and a graph with points
RECURSIVE TrimLoop(_, _, _, _)
TrimLoop(gr, K, fp, remv) ==
  LET lp   == ScanLast(gr, fp, fp)
      ndec == NDec(gr, fp, lp)
      rm   == IF ndec > K
                THEN MarkDecade(remv, fp, lp, CHOOSE r \in KeepRates(K, ndec) : TRUE)
                ELSE ClearDecade(remv, fp, lp)
  IN  IF lp = GetN(gr) - 1 THEN rm ELSE TrimLoop(gr, K, lp + 1, rm)

\* TrimGraph(gr, K) as one call, for K > 0 and gr null or with points
TrimGraph(gr, K) ==
  IF gr.null THEN NullGraph
  ELSE Graph(KeptPts(gr, TrimLoop(gr, K, 0, [j \in 1..GetN(gr) |-> FALSE]), 0))

\* the graphs handed to TrimGraph on its own: null, or up to MaxTrimPts
\* points with any x of TrimXs in any order, y the position of the point;
\* a graph of DensePts points 10, 11, 12, ... within one decade, trimmed to
\* 20 per decade as Draw does; and a graph of FinePts points 100, 101, 102,
\* ... within one decade, trimmed to 1 per decade
TrimPts(n) == {[i \in 1..n |-> Pt(xs[i], i)] : xs \in [1..n -> TrimXs]}
SmallTrimGraphs == {NullGraph} \cup {Graph(p) : p \in UNION {TrimPts(n) : n \in 0..MaxTrimPts}}
DenseGraph == Graph([i \in 1..DensePts |-> Pt(9 + i, i)])
FineGraph == Graph([i \in 1..FinePts |-> Pt(99 + i, i)])
TrimInputs ==
  (SmallTrimGraphs \X TrimKs) \cup ({DenseGraph, NullGraph, Graph(<<>>)} \X {DrawMaxNpPerDecade})
    \cup {<<FineGraph, 1>>}

TrimIdle ==
  /\ t_pc = "idle"
  /\ t_gr = NullGraph
  /\ t_K = 0
  /\ t_fp = 0
  /\ t_lp = 0
  /\ t_remv = <<>>
  /\ t_out = NullGraph
  /\ t_oob = FALSE
  /\ t_rates = {}

TrimStart ==
  /\ t_pc = "call"
  /\ \E in \in TrimInputs : t_gr = in[1] /\ t_K = in[2]
  /\ t_fp = 0
  /\ t_lp = 0
  /\ t_remv = <<>>
  /\ t_out = NullGraph
  /\ t_oob = FALSE
  /\ t_rates = {}

\* if(!gr) return 0; then remv(np), fp = 0, lp = 0
TrimEnter ==
  /\ t_pc = "call"
  /\ IF t_gr.null
       THEN /\ t_pc' = "done"
            /\ UNCHANGED t_remv
       ELSE /\ t_pc' = "loop"
            /\ t_remv' = [j \in 1..GetN(t_gr) |-> FALSE]
  /\ UNCHANGED <<t_gr, t_K, t_fp, t_lp, t_out, t_oob, t_rates>>

\* one iteration of while(1), and behind the last one the copy of the kept
\* points.  Reading GetX()[fp] with fp >= np is out of bounds, and
\* ithrow % 0 is a division by zero: each may end the process, or go on
TrimDecade ==
  /\ t_pc = "loop"
  /\ LET np   == GetN(t_gr)
         inb  == t_fp < np
         lp   == IF inb THEN ScanLast(t_gr, t_fp, t_fp) ELSE t_lp
         ndec == IF inb THEN NDec(t_gr, t_fp, lp) ELSE 0
         strided == ndec > t_K
     IN  \E keep_rate \in (IF strided THEN KeepRates(t_K, ndec) ELSE {0}) :
           /\ t_oob' = (t_oob \/ ~inb)
           /\ t_rates' = IF strided THEN t_rates \cup {keep_rate} ELSE t_rates
           /\ \/ /\ ~inb \/ (strided /\ keep_rate = 0 /\ t_fp <= lp)
                 /\ t_pc' = "crash"
                 /\ UNCHANGED <<t_fp, t_lp, t_remv, t_out>>
              \/ /\ t_lp' = lp
                 /\ t_remv' = IF strided THEN MarkDecade(t_remv, t_fp, lp, keep_rate)
                              ELSE ClearDecade(t_remv, t_fp, lp)
                 /\ IF lp = np - 1
                      THEN /\ t_out' = Graph(KeptPts(t_gr, t_remv', 0))
                           /\ t_pc' = "done"
                           /\ UNCHANGED t_fp
                      ELSE /\ t_fp' = lp + 1
                           /\ UNCHANGED <<t_pc, t_out>>
  /\ UNCHANGED <<t_gr, t_K>>

---------------------------------------------------------------------------
(* MultiGraph *)

\* the graph objects a caller holds, and the null pointer
GraphObjs == {"g1", "g2"}
NullPtr == "null"
\* the calls of AddGraph(legend_entry, graph) that are made
AddCalls == {<<"a", "g1">>, <<"b", "g2">>, <<"c", NullPtr>>}

n_colors == 10
colors  == <<1, 2, 4, 6, 7, 8, 9, 50, 38, 40>>
markers == <<3, 4, 5, 8, 21, 22, 23, 24, 25, 26, 27, 28, 29, 30>>

\* the attributes of a graph object nobody formatted yet
FreshAttr ==
  [MarkerSize |-> 1, MarkerColor |-> 1, MarkerStyle |-> 1,
   LineColor |-> 1, LineWidth |-> 1, LineStyle |-> 1]

\* a mutant of FormatAttrs: the colour taken by igraph / n_colors and the
\* marker by igraph % n_colors
FormatAttrs_IndicesSwapped(igraph) ==
  {[MarkerSize |-> 1, MarkerColor |-> colors[(igraph \div n_colors) + 1],
    MarkerStyle |-> markers[(igraph % n_colors) + 1],
    LineColor |-> colors[(igraph \div n_colors) + 1], LineWidth |-> 2, LineStyle |-> 1]}

\* a mutant of FormatAttrs: the marker never advances
FormatAttrs_FirstMarkerOnly(igraph) ==
  {[MarkerSize |-> 1, MarkerColor |-> colors[(igraph % n_colors) + 1],
    MarkerStyle |-> markers[1],
    LineColor |-> colors[(igraph % n_colors) + 1], LineWidth |-> 2, LineStyle |-> 1]}

\* a mutant of FormatAttrs: the markers start over after the seventh
FormatAttrs_MarkerWraps(igraph) ==
  {[MarkerSize |-> 1, MarkerColor |-> colors[(igraph % n_colors) + 1],
    MarkerStyle |-> markers[((igraph \div n_colors) % 7) + 1],
    LineColor |-> colors[(igraph % n_colors) + 1], LineWidth |-> 2, LineStyle |-> 1]}

\* the attributes FormatGraph(igraph) sets; markers[imarker] beyond the 14
\* markers is read out of bounds and may be any value
FormatAttrs(igraph) ==
  LET imarker == igraph \div n_colors
      icolor  == igraph % n_colors
      mstyles == IF imarker < Len(markers) THEN {markers[imarker + 1]} ELSE {0, IntMin, IntMax}
  IN  {[MarkerSize |-> 1, MarkerColor |-> colors[icolor + 1], MarkerStyle |-> m,
        LineColor |-> colors[icolor + 1], LineWidth |-> 2, LineStyle |-> 1] : m \in mstyles}

NGraphs == Len(mg_mgraph)
\* a mutant of GetGraph: the index taken as counting from 1
GetGraph_FromOne(igraph) ==
  IF igraph > 0 /\ igraph <= NGraphs THEN mg_mgraph[igraph] ELSE NullPtr
GetGraph(igraph) == IF igraph < NGraphs THEN mg_mgraph[igraph + 1] ELSE NullPtr
GetLegendEntry(igraph) == IF igraph < NGraphs THEN mg_legend_entries[igraph + 1] ELSE ""

\* nothing returned: before the first call, and after AddGraph, which is void
NoRet == [fn |-> "", igraph |-> 0, n |-> 0, graph |-> NullPtr, label |-> ""]

MGIdle ==
  /\ mg_pc = "idle"
  /\ mg_mgraph = <<>>
  /\ mg_legend_entries = <<>>
  /\ mg_attr = [g \in GraphObjs |-> FreshAttr]
  /\ mg_ret = NoRet

\* MultiGraph::MultiGraph(), and graph objects not formatted yet
MGStart ==
  /\ mg_pc = "run"
  /\ mg_mgraph = <<>>
  /\ mg_legend_entries = <<>>
  /\ mg_attr = [g \in GraphObjs |-> FreshAttr]
  /\ mg_ret = NoRet

\* AddGraph(legend_entry, graph): both pushed, then FormatGraph(size - 1),
\* which dereferences _mgraph[igraph]: a null graph ends the process there
AddGraph(legend_entry, graph) ==
  /\ mg_pc = "run"
  /\ mg_mgraph' = Append(mg_mgraph, graph)
  /\ mg_legend_entries' = Append(mg_legend_entries, legend_entry)
  /\ mg_ret' = NoRet
  /\ IF graph = NullPtr
       THEN /\ mg_pc' = "crash"
            /\ UNCHANGED mg_attr
       ELSE /\ \E a \in FormatAttrs(Len(mg_mgraph')  - 1) :
                 mg_attr' = [mg_attr EXCEPT ![graph] = a]
            /\ UNCHANGED mg_pc

\* the const accessors, called with an index igraph; the indices they are
\* called with are the first, the last, and the two behind the last
QueryIndices == {i \in {0, NGraphs - 1, NGraphs, NGraphs + 1} : i >= 0}
NGraphsCall ==
  /\ mg_pc = "run"
  /\ mg_ret' = [NoRet EXCEPT !.fn = "NGraphs", !.n = NGraphs]
  /\ UNCHANGED <<mg_pc, mg_mgraph, mg_legend_entries, mg_attr>>
GetGraphCall(igraph) ==
  /\ mg_pc = "run"
  /\ mg_ret' = [NoRet EXCEPT !.fn = "GetGraph", !.igraph = igraph, !.graph = GetGraph(igraph)]
  /\ UNCHANGED <<mg_pc, mg_mgraph, mg_legend_entries, mg_attr>>
GetLegendEntryCall(igraph) ==
  /\ mg_pc = "run"
  /\ mg_ret' = [NoRet EXCEPT !.fn = "GetLegendEntry", !.igraph = igraph,
                              !.label = GetLegendEntry(igraph)]
  /\ UNCHANGED <<mg_pc, mg_mgraph, mg_legend_entries, mg_attr>>

---------------------------------------------------------------------------
(* Strings whose characters the code inspects, as sequences of characters *)

npos == -1

\* s.find(sub): the first position (0-based) of sub in s, or npos
Find(s, sub) ==
  LET hits == {p \in 0..(Len(s) - Len(sub)) : SubSeq(s, p + 1, p + Len(sub)) = sub}
  IN  IF hits = {} THEN npos ELSE CHOOSE p \in hits : \A q \in hits : p <= q

\* s.substr(pos, n) for pos <= s.length(); beyond that substr throws
Substr(s, pos, n) ==
  SubSeq(s, pos + 1, IF pos + n < Len(s) THEN pos + n ELSE Len(s))

\* utils::str::Split(input, ","): the pieces between the commas
RECURSIVE Split(_)
Split(input) ==
  LET p == Find(input, <<",">>)
  IN  IF p = npos THEN <<input>>
      ELSE <<Substr(input, 0, p)>> \o Split(Substr(input, p + 1, Len(input)))

---------------------------------------------------------------------------
(* The directory name: DirNameToProbe, DirNameToTarget *)

kPdgNuE == 12
kPdgAntiNuE == -12
kPdgNuMu == 14
kPdgAntiNuMu == -14
kPdgNuTau == 16
kPdgAntiNuTau == -16

s_nu_e == <<"n", "u", "_", "e">>
s_nu_mu == <<"n", "u", "_", "m", "u">>
s_nu_tau == <<"n", "u", "_", "t", "a", "u">>
s_bar == <<"_", "b", "a", "r">>

IsNeutrino(pdg) == pdg \in {kPdgNuE, kPdgNuMu, kPdgNuTau}
IsAntiNeutrino(pdg) == pdg \in {kPdgAntiNuE, kPdgAntiNuMu, kPdgAntiNuTau}

\* the tokens looked for shortest first
ProbeOf_ShortTokenFirst(dirname) ==
  IF Find(dirname, s_nu_e) # npos THEN [pdg |-> kPdgNuE, label |-> "#nu_{e}"]
  ELSE IF Find(dirname, s_nu_e \o s_bar) # npos THEN [pdg |-> kPdgAntiNuE, label |-> "#bar{#nu_{e}}"]
  ELSE IF Find(dirname, s_nu_mu) # npos THEN [pdg |-> kPdgNuMu, label |-> "#nu_{#mu}"]
  ELSE IF Find(dirname, s_nu_mu \o s_bar) # npos THEN [pdg |-> kPdgAntiNuMu, label |-> "#bar{#nu_{#mu}}"]
  ELSE IF Find(dirname, s_nu_tau) # npos THEN [pdg |-> kPdgNuTau, label |-> "#nu_{#tau}"]
  ELSE IF Find(dirname, s_nu_tau \o s_bar) # npos THEN [pdg |-> kPdgAntiNuTau, label |-> "#bar{#nu_{#tau}}"]
  ELSE [pdg |-> 0, label |-> ""]
\* the pdg code and the label DirNameToProbe finds for dirname
ProbeOf(dirname) ==
  IF Find(dirname, s_nu_e \o s_bar) # npos THEN [pdg |-> kPdgAntiNuE, label |-> "#bar{#nu_{e}}"]
  ELSE IF Find(dirname, s_nu_e) # npos THEN [pdg |-> kPdgNuE, label |-> "#nu_{e}"]
  ELSE IF Find(dirname, s_nu_mu \o s_bar) # npos THEN [pdg |-> kPdgAntiNuMu, label |-> "#bar{#nu_{#mu}}"]
  ELSE IF Find(dirname, s_nu_mu) # npos THEN [pdg |-> kPdgNuMu, label |-> "#nu_{#mu}"]
  ELSE IF Find(dirname, s_nu_tau \o s_bar) # npos THEN [pdg |-> kPdgAntiNuTau, label |-> "#bar{#nu_{#tau}}"]
  ELSE IF Find(dirname, s_nu_tau) # npos THEN [pdg |-> kPdgNuTau, label |-> "#nu_{#tau}"]
  ELSE [pdg |-> 0, label |-> ""]

\* the position DirNameToTarget cuts the target label at: behind the probe
\* token and one more character; -1 when the probe is unknown (no cut)
TargetPos(dirname, pdg) ==
  IF pdg = kPdgAntiNuE THEN Find(dirname, s_nu_e \o s_bar) + 9
  ELSE IF pdg = kPdgNuE THEN Find(dirname, s_nu_e) + 5
  ELSE IF pdg = kPdgAntiNuMu THEN Find(dirname, s_nu_mu \o s_bar) + 10
  ELSE IF pdg = kPdgNuMu THEN Find(dirname, s_nu_mu) + 6
  ELSE IF pdg = kPdgAntiNuTau THEN Find(dirname, s_nu_tau \o s_bar) + 11
  ELSE IF pdg = kPdgNuTau THEN Find(dirname, s_nu_tau) + 7
  ELSE -1

\* dirname.substr(pos, length) throws std::out_of_range
TargetThrows(dirname, pdg) == TargetPos(dirname, pdg) > Len(dirname)

\* what DirNameToTarget sets, when substr does not throw
TargetOf(dirname, pdg) ==
  LET pos    == TargetPos(dirname, pdg)
      label  == IF pos = -1 THEN <<>> ELSE Substr(dirname, pos, Len(dirname))
      free_n == Len(label) = 1 /\ Find(label, <<"n">>) # npos
      free_p == Len(label) = 2 /\ Find(label, <<"H", "1">>) # npos
  IN  [HasP |-> ~free_n, HasN |-> ~free_p,
       Lbl |-> IF free_p \/ free_n THEN <<>> ELSE <<"(">> \o label \o <<")">>,
       IsFreeNuc |-> free_p \/ free_n]

---------------------------------------------------------------------------
(* The plots MakePlotsCurrDir asks Draw for, in order *)

Seg(cond, plots) == IF cond THEN plots ELSE <<>>

\* if(gCurrTargetHasN) { ... }
PlotsN(IsNu, IsNuBar) ==
  <<"tot_cc_n", "tot_nc_n">>
  \o Seg(IsNu,
       <<"qel_cc_n">>)
  \o <<"qel_nc_n", "res_cc_n", "res_nc_n", "res_cc_n_1232P33",
      "res_cc_n_1535S11", "res_cc_n_1520D13", "res_cc_n_1650S11",
      "res_cc_n_1700D13", "res_cc_n_1675D15", "res_cc_n_1620S31",
      "res_cc_n_1700D33", "res_cc_n_1440P11", "res_cc_n_1720P13",
      "res_cc_n_1680F15", "res_cc_n_1910P31", "res_cc_n_1920P33",
      "res_cc_n_1905F35", "res_cc_n_1950F37", "res_cc_n_1710P11",
      "res_nc_n_1232P33", "res_nc_n_1535S11", "res_nc_n_1520D13",
      "res_nc_n_1650S11", "res_nc_n_1700D13", "res_nc_n_1675D15",
      "res_nc_n_1620S31", "res_nc_n_1700D33", "res_nc_n_1440P11",
      "res_nc_n_1720P13", "res_nc_n_1680F15", "res_nc_n_1910P31",
      "res_nc_n_1920P33", "res_nc_n_1905F35", "res_nc_n_1950F37",
      "res_nc_n_1710P11", "dis_cc_n", "dis_nc_n">>
  \o Seg(IsNu,
       <<"dis_cc_n_ubarsea", "dis_cc_n_dval", "dis_cc_n_dsea",
         "dis_cc_n_ssea">>)
  \o Seg(IsNuBar,
       <<"dis_cc_n_sbarsea", "dis_cc_n_dbarsea", "dis_cc_n_uval",
         "dis_cc_n_usea">>)
  \o <<"dis_nc_n_sbarsea", "dis_nc_n_ubarsea", "dis_nc_n_dbarsea",
      "dis_nc_n_dval", "dis_nc_n_dsea", "dis_nc_n_uval", "dis_nc_n_usea",
      "dis_nc_n_ssea">>
  \o Seg(IsNu,
       <<"dis_cc_n_dval_charm", "dis_cc_n_dsea_charm", "dis_cc_n_ssea_charm">>)
  \o Seg(IsNuBar,
       <<"dis_cc_n_dbarsea_charm", "dis_cc_n_sbarsea_charm">>)

\* if(gCurrTargetHasP) { ... }
PlotsP(IsNu, IsNuBar) ==
  <<"tot_cc_p", "tot_nc_p">>
  \o Seg(IsNuBar,
       <<"qel_cc_p">>)
  \o <<"qel_nc_p", "res_cc_p", "res_nc_p", "res_cc_p_1232P33",
      "res_cc_p_1535S11", "res_cc_p_1520D13", "res_cc_p_1650S11",
      "res_cc_p_1700D13", "res_cc_p_1675D15", "res_cc_p_1620S31",
      "res_cc_p_1700D33", "res_cc_p_1440P11", "res_cc_p_1720P13",
      "res_cc_p_1680F15", "res_cc_p_1910P31", "res_cc_p_1920P33",
      "res_cc_p_1905F35", "res_cc_p_1950F37", "res_cc_p_1710P11",
      "res_nc_p_1232P33", "res_nc_p_1535S11", "res_nc_p_1520D13",
      "res_nc_p_1650S11", "res_nc_p_1700D13", "res_nc_p_1675D15",
      "res_nc_p_1620S31", "res_nc_p_1700D33", "res_nc_p_1440P11",
      "res_nc_p_1720P13", "res_nc_p_1680F15", "res_nc_p_1910P31",
      "res_nc_p_1920P33", "res_nc_p_1905F35", "res_nc_p_1950F37",
      "res_nc_p_1710P11", "dis_cc_p", "dis_nc_p">>
  \o Seg(IsNu,
       <<"dis_cc_p_ubarsea", "dis_cc_p_dval", "dis_cc_p_dsea",
         "dis_cc_p_ssea">>)
  \o Seg(IsNuBar,
       <<"dis_cc_n_sbarsea", "dis_cc_n_dbarsea", "dis_cc_n_uval",
         "dis_cc_n_usea">>)
  \o <<"dis_nc_p_sbarsea", "dis_nc_p_ubarsea", "dis_nc_p_dbarsea",
      "dis_nc_p_dval", "dis_nc_p_dsea", "dis_nc_p_uval", "dis_nc_p_usea",
      "dis_nc_p_ssea">>
  \o Seg(IsNu,
       <<"dis_cc_p_dval_charm", "dis_cc_p_dsea_charm", "dis_cc_p_ssea_charm">>)
  \o Seg(IsNuBar,
       <<"dis_cc_p_dbarsea_charm", "dis_cc_p_sbarsea_charm">>)

PlotsCurrDir(IsFreeNuc, HasN, HasP, IsNu, IsNuBar) ==
  Seg(~IsFreeNuc, <<"tot_cc", "tot_nc">>)
  \o Seg(HasN, PlotsN(IsNu, IsNuBar))
  \o Seg(HasP, PlotsP(IsNu, IsNuBar))

---------------------------------------------------------------------------
(* gxscomp: the command lines and the files it is run on *)

\* an option of the command line: absent, or given with an argument
NoOpt == [given |-> FALSE, arg |-> <<>>]
Opt(arg) == [given |-> TRUE, arg |-> arg]

s_current == <<"c", "u", "r", "r", "e", "n", "t">>
s_reference == <<"r", "e", "f", "e", "r", "e", "n", "c", "e">>
s_xsec_ps == <<"x", "s", "e", "c", ".", "p", "s">>

\* the files gSystem->AccessPathName finds
AccessibleFiles == {<<"a">>, <<"b">>}

Cmds ==
  { [f |-> Opt(<<"a">>), r |-> NoOpt, o |-> NoOpt],
    [f |-> Opt(<<"a", ",", "L">>), r |-> Opt(<<"b">>), o |-> Opt(<<"o">>)],
    [f |-> NoOpt, r |-> Opt(<<"b">>), o |-> NoOpt],
    [f |-> Opt(<<"x">>), r |-> NoOpt, o |-> NoOpt],
    [f |-> Opt(<<"a">>), r |-> Opt(<<"x", ",", "R">>), o |-> NoOpt],
    [f |-> Opt(<<"a", ",", "b", ",", "c">>), r |-> NoOpt, o |-> NoOpt],
    [f |-> Opt(<<",", "L">>), r |-> NoOpt, o |-> NoOpt] }

\* the graphs of the files
CurveA == Graph(<<Pt(1, 1), Pt(2, 2)>>)
CurveB == Graph(<<Pt(1, 2), Pt(2, 0), Pt(5, 1)>>)
EmptyCurve == Graph(<<>>)

\* the content of a directory: a graph for some of the plot names
NoPlots == [p \in {} |-> NullGraph]
CurrContents ==
  { NoPlots,
    [p \in {"tot_cc", "tot_cc_n", "dis_cc_n_sbarsea", "dis_cc_p_dval", "qel_nc_p"} |->
       IF p = "tot_cc" THEN CurveB ELSE CurveA] }
RefContents ==
  { [p \in {"tot_cc_n", "tot_nc_n", "dis_cc_n_sbarsea", "qel_nc_p"} |->
       IF p = "tot_cc_n" THEN DenseGraph ELSE CurveB],
    [p \in {"tot_cc", "dis_nc_p"} |-> IF p = "tot_cc" THEN CurveA ELSE EmptyCurve] }

s_nu_mu_bar_C12 == s_nu_mu \o s_bar \o <<"_", "C", "1", "2">>
s_nu_e_H1 == s_nu_e \o <<"_", "H", "1">>
s_nu_tau_n == s_nu_tau \o <<"_", "n">>
s_C12 == <<"C", "1", "2">>
DirNames == {s_nu_mu_bar_C12, s_nu_e_H1, s_nu_tau_n, s_nu_mu, s_C12}

\* a file: the names of its keys in order, each a directory of one content
NullFile == [null |-> TRUE, keys |-> <<>>, content |-> NoPlots]
File(keys, content) == [null |-> FALSE, keys |-> keys, content |-> content]
IsInjective(q) == \A i, j \in 1..Len(q) : q[i] = q[j] => i = j
CurrFiles ==
  {File(ks, c) : ks \in {q \in SeqsUpTo(DirNames, MaxDirs) : IsInjective(q)},
                 c \in CurrContents}
RefFiles ==
  {File(ks, c) : ks \in {<<>>, <<s_nu_mu_bar_C12>>, <<s_nu_tau_n, s_nu_e_H1, s_nu_mu_bar_C12>>},
                 c \in RefContents}

\* directory names of one probe token or none, something or nothing before
\* it, and a target label or nothing after it
ProbeNames ==
  {b \o t \o a :
     b \in {<<>>, <<"x", "_">>},
     t \in {<<>>, s_nu_e, s_nu_e \o s_bar, s_nu_mu, s_nu_mu \o s_bar,
            s_nu_tau, s_nu_tau \o s_bar},
     a \in {<<>>, <<"_", "n">>, <<"_", "H", "1">>, <<"_", "C", "1", "2">>}}

\* a directory; file->Get(name) is null when the file has no such key
NullDir == [null |-> TRUE, content |-> NoPlots]
FileGet(file, name) ==
  IF \E i \in 1..Len(file.keys) : file.keys[i] = name
    THEN [null |-> FALSE, content |-> file.content]
    ELSE NullDir
\* dir->Get(plot)
DirGet(dir, plot) ==
  IF plot \in DOMAIN dir.content THEN dir.content[plot] ELSE NullGraph

NoDraw == [plot |-> "", curr |-> NullGraph, ref |-> NullGraph, trim |-> NullGraph,
           ratio |-> NullGraph, called |-> FALSE, paged |-> FALSE]

RunIdle ==
  /\ pc = "idle"
  /\ cmd = [f |-> NoOpt, r |-> NoOpt, o |-> NoOpt]
  /\ gOptXSecFilename_curr = <<>>
  /\ gOptXSecFilename_ref0 = <<>>
  /\ gOptOutputFilename = <<>>
  /\ gOptHaveRef = FALSE
  /\ gLabelCurr = <<>>
  /\ gLabelRef0 = <<>>
  /\ gXSecFile_curr = NullFile
  /\ gXSecFile_ref0 = NullFile
  /\ gDirName = <<>>
  /\ gDirCurr = NullDir
  /\ gDirRef0 = NullDir
  /\ gCurrProbeLbl = ""
  /\ gCurrProbePdg = 0
  /\ gCurrProbeIsNu = FALSE
  /\ gCurrProbeIsNuBar = FALSE
  /\ gCurrTargetLbl = <<>>
  /\ gCurrTargetHasP = FALSE
  /\ gCurrTargetHasN = FALSE
  /\ gCurrTargetIsFreeNuc = FALSE
  /\ gPS = [open |-> FALSE, NewPage |-> 0, Close |-> 0]
  /\ idir = 0
  /\ todo = <<>>
  /\ pages = <<>>
  /\ live = [trim |-> 0, ratio |-> 0]
  /\ last = NoDraw

\* the globals as their initializers leave them, at the entry of main
RunStart ==
  /\ pc = "main"
  /\ cmd \in Cmds
  /\ gOptXSecFilename_curr = <<>>
  /\ gOptXSecFilename_ref0 = <<>>
  /\ gOptOutputFilename = <<>>
  /\ gOptHaveRef = FALSE
  /\ gLabelCurr = <<>>
  /\ gLabelRef0 = <<>>
  /\ gXSecFile_curr = NullFile
  /\ gXSecFile_ref0 = NullFile
  /\ gDirName = <<>>
  /\ gDirCurr = NullDir
  /\ gDirRef0 = NullDir
  /\ gCurrProbeLbl = ""
  /\ gCurrProbePdg = 0
  /\ gCurrProbeIsNu = FALSE
  /\ gCurrProbeIsNuBar = FALSE
  /\ gCurrTargetLbl = <<>>
  /\ gCurrTargetHasP = FALSE
  /\ gCurrTargetHasN = FALSE
  /\ gCurrTargetIsFreeNuc = FALSE
  /\ gPS = [open |-> FALSE, NewPage |-> 0, Close |-> 0]
  /\ idir = 0
  /\ todo = <<>>
  /\ pages = <<>>
  /\ live = [trim |-> 0, ratio |-> 0]
  /\ last = NoDraw

\* the loop of MakePlots at its first turn, in a run of "gxscomp -f a" on a
\* file of one directory, named by one of ProbeNames
ProbeStart ==
  /\ pc = "loop"
  /\ cmd = [f |-> Opt(<<"a">>), r |-> NoOpt, o |-> NoOpt]
  /\ gOptXSecFilename_curr = <<"a">>
  /\ gOptXSecFilename_ref0 = <<>>
  /\ gOptOutputFilename = s_xsec_ps
  /\ gOptHaveRef = FALSE
  /\ gLabelCurr = s_current
  /\ gLabelRef0 = <<>>
  /\ gXSecFile_curr \in {File(<<name>>, c) : name \in ProbeNames, c \in CurrContents}
  /\ gXSecFile_ref0 = NullFile
  /\ gDirName = <<>>
  /\ gDirCurr = NullDir
  /\ gDirRef0 = NullDir
  /\ gCurrProbeLbl = ""
  /\ gCurrProbePdg = 0
  /\ gCurrProbeIsNu = FALSE
  /\ gCurrProbeIsNuBar = FALSE
  /\ gCurrTargetLbl = <<>>
  /\ gCurrTargetHasP = FALSE
  /\ gCurrTargetHasN = FALSE
  /\ gCurrTargetIsFreeNuc = FALSE
  /\ gPS = [open |-> TRUE, NewPage |-> 2, Close |-> 0]
  /\ idir = 0
  /\ todo = <<>>
  /\ pages = <<>>
  /\ live = [trim |-> 0, ratio |-> 0]
  /\ last = NoDraw

---------------------------------------------------------------------------
(* gxscomp: main and the functions it calls *)

CheckRootFilename(filename) ==
  IF Len(filename) = 0 THEN FALSE
  ELSE filename \in AccessibleFiles

\* the argument of -f or -r: "file" or "file,label"; n is inpv.size()
FileArg(inp, dflt) ==
  IF Find(inp, <<",">>) # npos
    THEN LET inpv == Split(inp)
         IN  [n |-> Len(inpv), name |-> inpv[1], label |-> inpv[2]]
    ELSE [n |-> 2, name |-> inp, label |-> dflt]

\* the options as GetCommandLineArgs leaves them, and where main goes next:
\* on to Init, or out by exit(1), or out by the failed assert (which a build
\* with NDEBUG does not make)
ArgsAfterF(c) ==
  LET g0 == [pc |-> "exit", curr |-> <<>>, lcurr |-> <<>>, ref |-> <<>>,
             lref |-> <<>>, out |-> <<>>, haveRef |-> FALSE]
  IN  IF ~c.f.given THEN {g0}
      ELSE LET a == FileArg(c.f.arg, s_current)
               g1 == [g0 EXCEPT !.curr = a.name, !.lcurr = a.label]
               go == IF CheckRootFilename(a.name) THEN [g1 EXCEPT !.pc = "Init"] ELSE g1
           IN  IF a.n # 2 THEN {[g0 EXCEPT !.pc = "abort"], go} ELSE {go}
\* -r is not read
ArgsAfterR_NotRead(c, g) ==
  IF g.pc # "Init" THEN {g} ELSE {[g EXCEPT !.haveRef = FALSE]}
ArgsAfterR(c, g) ==
  IF g.pc # "Init" THEN {g}
  ELSE IF ~c.r.given THEN {[g EXCEPT !.haveRef = FALSE]}
  ELSE LET a == FileArg(c.r.arg, s_reference)
           g1 == [g EXCEPT !.ref = a.name, !.lref = a.label]
           go == IF CheckRootFilename(a.name) THEN [g1 EXCEPT !.haveRef = TRUE]
                 ELSE [g1 EXCEPT !.pc = "exit"]
       IN  IF a.n # 2 THEN {[g EXCEPT !.pc = "abort"], go} ELSE {go}
ArgsAfterO(c, g) ==
  IF g.pc # "Init" THEN g
  ELSE IF c.o.given THEN [g EXCEPT !.out = c.o.arg]
  ELSE [g EXCEPT !.out = s_xsec_ps]

GetCommandLineArgs ==
  /\ pc = "main"
  /\ \E f \in ArgsAfterF(cmd) : \E r \in ArgsAfterR(cmd, f) :
       LET g == ArgsAfterO(cmd, r)
       IN  /\ pc' = g.pc
           /\ gOptXSecFilename_curr' = g.curr
           /\ gLabelCurr' = g.lcurr
           /\ gOptXSecFilename_ref0' = g.ref
           /\ gLabelRef0' = g.lref
           /\ gOptOutputFilename' = g.out
           /\ gOptHaveRef' = g.haveRef
  /\ UNCHANGED <<cmd, fileVars, dirVars, probeVars, targetVars, pageVars, idir, todo>>

\* opens the output file; the front page and the page after it
Init ==
  /\ pc = "Init"
  /\ gPS' = [open |-> TRUE, NewPage |-> 2, Close |-> 0]
  /\ pc' = "MakePlots"
  /\ UNCHANGED <<cmd, optVars, fileVars, dirVars, probeVars, targetVars, pages, live,
                 last, idir, todo>>

\* opens the files; the file named by -f is one of CurrFiles, the file named
\* by -r one of RefFiles
MakePlots ==
  /\ pc = "MakePlots"
  /\ gXSecFile_curr' \in CurrFiles
  /\ gXSecFile_ref0' \in (IF gOptHaveRef THEN RefFiles ELSE {NullFile})
  /\ idir' = 0
  /\ pc' = "loop"
  /\ UNCHANGED <<cmd, optVars, dirVars, probeVars, targetVars, pageVars, todo>>

ndir == Len(gXSecFile_curr.keys)

\* a mutant of OpenDir: gDirRef0 is not reset before the reference file is
\* asked for the directory
OpenDir_RefNotReset(name) ==
  [curr |-> FileGet(gXSecFile_curr, name),
   ref0 |-> IF ~gXSecFile_ref0.null /\ ~FileGet(gXSecFile_ref0, name).null
              THEN FileGet(gXSecFile_ref0, name) ELSE gDirRef0]

\* gDirCurr and gDirRef0 for a directory name
OpenDir(name) ==
  [curr |-> FileGet(gXSecFile_curr, name),
   ref0 |-> IF ~gXSecFile_ref0.null THEN FileGet(gXSecFile_ref0, name) ELSE NullDir]

\* one turn of the loop of MakePlots, up to the first Draw call of
\* MakePlotsCurrDir: the Draw calls to make are left in todo
MakePlotsCurrDir ==
  /\ pc = "loop"
  /\ idir < ndir
  /\ LET name == gXSecFile_curr.keys[idir + 1]
         dirs == OpenDir(name)
         probe == ProbeOf(name)
     IN  /\ gDirName' = name
         /\ gDirCurr' = dirs.curr
         /\ gDirRef0' = dirs.ref0
         /\ gCurrProbeLbl' = probe.label
         /\ gCurrProbePdg' = probe.pdg
         /\ gCurrProbeIsNu' = IsNeutrino(probe.pdg)
         /\ gCurrProbeIsNuBar' = IsAntiNeutrino(probe.pdg)
         /\ IF TargetThrows(name, probe.pdg)
              THEN /\ pc' = "abort"
                   /\ UNCHANGED <<targetVars, todo>>
              ELSE LET target == TargetOf(name, probe.pdg)
                   IN  /\ gCurrTargetHasP' = target.HasP
                       /\ gCurrTargetHasN' = target.HasN
                       /\ gCurrTargetLbl' = target.Lbl
                       /\ gCurrTargetIsFreeNuc' = target.IsFreeNuc
                       /\ todo' = PlotsCurrDir(target.IsFreeNuc, target.HasN, target.HasP,
                                               IsNeutrino(probe.pdg), IsAntiNeutrino(probe.pdg))
                       /\ pc' = "draw"
  /\ UNCHANGED <<cmd, optVars, fileVars, pageVars, idir>>

\* Draw returns before it draws anything
DrawSkips_CurrOnly(gr_curr, gr_ref0) == gr_curr.null
DrawSkips(gr_curr, gr_ref0) == gr_curr.null /\ gr_ref0.null

\* the next Draw(plot, title) call of MakePlotsCurrDir; after the last one the
\* loop of MakePlots goes on to the next directory
Draw ==
  /\ pc = "draw"
  /\ todo # <<>>
  /\ LET plot == Head(todo)
         gr_curr == DirGet(gDirCurr, plot)
         gr_ref0 == IF ~gDirRef0.null THEN DirGet(gDirRef0, plot) ELSE NullGraph
         next == IF Tail(todo) = <<>> THEN "loop" ELSE "draw"
     IN  /\ todo' = Tail(todo)
         /\ idir' = IF Tail(todo) = <<>> THEN idir + 1 ELSE idir
         /\ IF DrawSkips(gr_curr, gr_ref0)
              THEN /\ last' = [NoDraw EXCEPT !.plot = plot, !.curr = gr_curr, !.ref = gr_ref0]
                   /\ pc' = next
                   /\ UNCHANGED <<gPS, pages, live>>
            ELSE IF ~gr_ref0.null /\ GetN(gr_ref0) = 0
              \* TrimGraph reads past the end of an empty graph and never
              \* finds its last point
              THEN /\ pc' \in {"crash", "hang"}
                   /\ last' = [NoDraw EXCEPT !.plot = plot, !.curr = gr_curr, !.ref = gr_ref0]
                   /\ UNCHANGED <<gPS, pages, live>>
            ELSE LET gr_ref0_trim == TrimGraph(gr_ref0, DrawMaxNpPerDecade)
                     gr_ratio == IF gOptHaveRef THEN DrawRatio(gr_curr, gr_ref0)
                                 ELSE NullGraph
                 IN  /\ last' = [plot |-> plot, curr |-> gr_curr, ref |-> gr_ref0,
                                 trim |-> gr_ref0_trim, ratio |-> gr_ratio,
                                 called |-> gOptHaveRef, paged |-> TRUE]
                     \* gr_ref0_trim is deleted, gr_ratio is not
                     /\ live' = [live EXCEPT !.ratio = @ + (IF gr_ratio.null THEN 0 ELSE 1)]
                     /\ gPS' = [gPS EXCEPT !.NewPage = @ + 1]
                     /\ pages' = Append(pages, <<idir, plot>>)
                     /\ pc' = next
  /\ UNCHANGED <<cmd, optVars, fileVars, dirVars, probeVars, targetVars>>

\* after the loop of MakePlots
End ==
  /\ pc = "loop"
  /\ idir >= ndir
  /\ gPS' = [gPS EXCEPT !.open = FALSE, !.Close = @ + 1]
  /\ pc' = "done"
  /\ UNCHANGED <<cmd, optVars, fileVars, dirVars, probeVars, targetVars, pages, live,
                 last, idir, todo>>

---------------------------------------------------------------------------
(* vDataSelectionTab: the popup dialogs and the Bundle calls *)

MaxDialogs == 3
MaxMsgBoxes == 2

\* fDBC: whether SqlServer() is there, and whether it IsConnected()
DBStates ==
  { [server |-> FALSE, connected |-> FALSE],
    [server |-> TRUE, connected |-> FALSE],
    [server |-> TRUE, connected |-> TRUE] }
IsConnected == IF ~fDBC.server THEN FALSE ELSE fDBC.connected

\* the kinds of dialog the two buttons make
DialogKinds == {"vDataSelectionDialog", "vMeasurementListDialog"}
\* the four Bundle...InString methods
BundleCalls == {"Selections", "KeyList", "Cuts", "DrawOpt"}
NoBundle == [from |-> "", dialog |-> 0, which |-> ""]

TabIdle ==
  /\ tab_pc = "idle"
  /\ fDBC = [server |-> FALSE, connected |-> FALSE]
  /\ fPopupDialogLAM = FALSE
  /\ fPopupDialog = 0
  /\ dialogs = {}
  /\ ndialogs = 0
  /\ nmsgbox = 0
  /\ tab_ret = NoBundle

\* the tab as its constructor leaves it: the flag clear, fPopupDialog not
\* assigned (0 stands for the pointer no dialog was assigned to)
TabStart ==
  /\ tab_pc = "run"
  /\ fDBC \in DBStates
  /\ fPopupDialogLAM = FALSE
  /\ fPopupDialog = 0
  /\ dialogs = {}
  /\ ndialogs = 0
  /\ nmsgbox = 0
  /\ tab_ret = NoBundle

\* a mutant of PopupCreates: the flag is not looked at
PopupCreates_FlagIgnored == IsConnected

\* the popup handlers make a dialog
PopupCreates == IsConnected /\ ~fPopupDialogLAM

\* a popup handler, for the kind of dialog it makes; the dialog is handed
\* the flag and sets it
Popup(kind) ==
  /\ tab_pc = "run"
  /\ IF PopupCreates
       THEN /\ ndialogs < MaxDialogs
            /\ ndialogs' = ndialogs + 1
            /\ fPopupDialog' = ndialogs + 1
            /\ dialogs' = dialogs \cup {[id |-> ndialogs + 1, kind |-> kind]}
            /\ fPopupDialogLAM' = TRUE
            /\ UNCHANGED nmsgbox
       ELSE /\ nmsgbox < MaxMsgBoxes
            /\ nmsgbox' = nmsgbox + 1
            /\ UNCHANGED <<fPopupDialog, dialogs, ndialogs, fPopupDialogLAM>>
  /\ UNCHANGED <<tab_pc, fDBC, tab_ret>>

PopupNuDataSelectionDialog == Popup("vDataSelectionDialog")
PopupNuMeasurementListDialog == Popup("vMeasurementListDialog")

\* a mutant of BundleFromPopup: only BundleSelectionsInString looks at the flag
BundleFromPopup_SelectionsOnly(which) == fPopupDialogLAM /\ which = "Selections"

\* a Bundle...InString method hands the call on to the popup dialog
BundleFromPopup(which) == fPopupDialogLAM

\* BundleSelectionsInString, BundleKeyListInString, BundleCutsInString,
\* BundleDrawOptInString: whose selections the string returned is made of
BundleInString(which) ==
  /\ tab_pc = "run"
  /\ tab_ret' = IF BundleFromPopup(which)
                  THEN [from |-> "popup", dialog |-> fPopupDialog, which |-> which]
                  ELSE [from |-> "tab", dialog |-> 0, which |-> which]
  /\ UNCHANGED <<tab_pc, fDBC, fPopupDialogLAM, fPopupDialog, dialogs, ndialogs, nmsgbox>>

\* an open dialog is closed: it is deleted and the flag it was handed is
\* cleared; fPopupDialog keeps pointing to where it was
CloseWindow ==
  /\ tab_pc = "run"
  /\ \E d \in dialogs : dialogs' = dialogs \ {d}
  /\ fPopupDialogLAM' = FALSE
  /\ UNCHANGED <<tab_pc, fDBC, fPopupDialog, ndialogs, nmsgbox, tab_ret>>

\* the connection to the data-base is made or lost
DBChange ==
  /\ tab_pc = "run"
  /\ fDBC' \in DBStates \ {fDBC}
  /\ UNCHANGED <<tab_pc, fPopupDialogLAM, fPopupDialog, dialogs, ndialogs, nmsgbox, tab_ret>>

---------------------------------------------------------------------------
(* Specifications *)

\* DrawRatio on every pair of graphs of RatioGraphs
StartRatio == RatioStart /\ TrimIdle /\ MGIdle /\ RunIdle /\ TabIdle
NextRatio == DrawRatioCall /\ UNCHANGED <<trimVars, mgVars, runVars, tabVars>>
SpecRatio == StartRatio /\ [][NextRatio]_vars

\* TrimGraph on every input of TrimInputs
StartTrim == TrimStart /\ RatioIdle /\ MGIdle /\ RunIdle /\ TabIdle
NextTrim ==
  \/ TrimEnter /\ UNCHANGED <<ratioVars, mgVars, runVars, tabVars>>
  \/ TrimDecade /\ UNCHANGED <<ratioVars, mgVars, runVars, tabVars>>
SpecTrim == StartTrim /\ [][NextTrim]_vars

\* every sequence of at most MaxGraphs calls of AddCalls on one MultiGraph,
\* and the accessors called in between
StartMultiGraph == MGStart /\ RatioIdle /\ TrimIdle /\ RunIdle /\ TabIdle
NextMultiGraph ==
  \/ \E c \in AddCalls :
       NGraphs < MaxGraphs /\ AddGraph(c[1], c[2]) /\ UNCHANGED <<ratioVars, trimVars, runVars, tabVars>>
  \/ NGraphsCall /\ UNCHANGED <<ratioVars, trimVars, runVars, tabVars>>
  \/ \E i \in QueryIndices : GetGraphCall(i) /\ UNCHANGED <<ratioVars, trimVars, runVars, tabVars>>
  \/ \E i \in QueryIndices : GetLegendEntryCall(i) /\ UNCHANGED <<ratioVars, trimVars, runVars, tabVars>>
SpecMultiGraph == StartMultiGraph /\ [][NextMultiGraph]_vars

\* one graph object added to one MultiGraph MaxFormatted times
StartFormat == MGStart /\ RatioIdle /\ TrimIdle /\ RunIdle /\ TabIdle
NextFormat ==
  NGraphs < MaxFormatted /\ AddGraph("a", "g1") /\ UNCHANGED <<ratioVars, trimVars, runVars, tabVars>>
SpecFormat == StartFormat /\ [][NextFormat]_vars

\* the turn of the loop of MakePlots for one directory, of every name of
\* ProbeNames
StartProbe == ProbeStart /\ RatioIdle /\ TrimIdle /\ MGIdle /\ TabIdle
NextProbe ==
  \/ MakePlotsCurrDir /\ UNCHANGED <<ratioVars, trimVars, mgVars, tabVars>>
  \/ Draw /\ UNCHANGED <<ratioVars, trimVars, mgVars, tabVars>>
  \/ End /\ UNCHANGED <<ratioVars, trimVars, mgVars, tabVars>>
SpecProbe == StartProbe /\ [][NextProbe]_vars

\* every sequence of events on one vDataSelectionTab: the two popup
\* buttons, the Bundle calls, a dialog closed, the data-base connection
\* made or lost
StartTab == TabStart /\ RatioIdle /\ TrimIdle /\ MGIdle /\ RunIdle
NextTab ==
  \/ PopupNuDataSelectionDialog /\ UNCHANGED <<ratioVars, trimVars, mgVars, runVars>>
  \/ PopupNuMeasurementListDialog /\ UNCHANGED <<ratioVars, trimVars, mgVars, runVars>>
  \/ \E which \in BundleCalls :
       BundleInString(which) /\ UNCHANGED <<ratioVars, trimVars, mgVars, runVars>>
  \/ CloseWindow /\ UNCHANGED <<ratioVars, trimVars, mgVars, runVars>>
  \/ DBChange /\ UNCHANGED <<ratioVars, trimVars, mgVars, runVars>>
SpecTab == StartTab /\ [][NextTab]_vars

\* gxscomp run on every command line of Cmds, with every file of CurrFiles
\* as the current file and every file of RefFiles as the reference
Start == RunStart /\ RatioIdle /\ TrimIdle /\ MGIdle /\ TabIdle
Next ==
  \/ GetCommandLineArgs /\ UNCHANGED <<ratioVars, trimVars, mgVars, tabVars>>
  \/ Init /\ UNCHANGED <<ratioVars, trimVars, mgVars, tabVars>>
  \/ MakePlots /\ UNCHANGED <<ratioVars, trimVars, mgVars, tabVars>>
  \/ MakePlotsCurrDir /\ UNCHANGED <<ratioVars, trimVars, mgVars, tabVars>>
  \/ Draw /\ UNCHANGED <<ratioVars, trimVars, mgVars, tabVars>>
  \/ End /\ UNCHANGED <<ratioVars, trimVars, mgVars, tabVars>>
Spec == Start /\ [][Next]_vars

---------------------------------------------------------------------------
(* Claims about DrawRatio, under SpecRatio *)

\* DrawRatio returned a graph for two graphs that are not null
RatioDone == r_pc = "done" /\ ~r_gr0.null /\ ~r_gr1.null

\* the samples of the numerator, as 0-based indices
RatioSamples == 0..(GetN(r_gr0) - 1)
NumZeroAt(i) == RatIsZero(Eval(r_gr0, X(r_gr0, i)))
DenZeroAt(i) == RatIsZero(Eval(r_gr1, X(r_gr0, i)))
RatioShaped == ~r_ratio.null /\ GetN(r_ratio) = GetN(r_gr0)

\* C1 as stated: where the numerator evaluates to 0 and the denominator does
\* not, the ratio curve's y is -1
C1_NumZeroDenNonZeroIsMinusOne ==
  RatioDone =>
    /\ RatioShaped
    /\ \A i \in RatioSamples :
         (NumZeroAt(i) /\ ~DenZeroAt(i)) => Y(r_ratio, i) = Rat(-1, 1)

\* C1 as amended: where the numerator evaluates to 0 and the denominator does
\* not, the ratio curve's y is +1
C1_NumZeroDenNonZeroIsPlusOne ==
  RatioDone =>
    /\ RatioShaped
    /\ \A i \in RatioSamples :
         (NumZeroAt(i) /\ ~DenZeroAt(i)) => Y(r_ratio, i) = Rat(1, 1)

\* a ratio was drawn with a sample where only the numerator vanishes, the
\* denominator being interpolated there
C1_Witness ==
  /\ RatioDone
  /\ \E i \in RatioSamples :
       /\ NumZeroAt(i) /\ ~DenZeroAt(i)
       /\ \A j \in 0..(GetN(r_gr1) - 1) : X(r_gr1, j) # X(r_gr0, i)

\* C2 as stated: where the numerator evaluates to a non-zero value and the
\* denominator to 0, the ratio curve's y is +1
C2_NumNonZeroDenZeroIsPlusOne ==
  RatioDone =>
    /\ RatioShaped
    /\ \A i \in RatioSamples :
         (~NumZeroAt(i) /\ DenZeroAt(i)) => Y(r_ratio, i) = Rat(1, 1)

\* C2 as amended: where the numerator evaluates to a non-zero value and the
\* denominator to 0, the ratio curve's y is -1
C2_NumNonZeroDenZeroIsMinusOne ==
  RatioDone =>
    /\ RatioShaped
    /\ \A i \in RatioSamples :
         (~NumZeroAt(i) /\ DenZeroAt(i)) => Y(r_ratio, i) = Rat(-1, 1)

\* a ratio was drawn with a sample where only the denominator vanishes, by
\* extrapolation beyond its last point
C2_Witness ==
  /\ RatioDone
  /\ \E i \in RatioSamples :
       /\ ~NumZeroAt(i) /\ DenZeroAt(i)
       /\ \A j \in 0..(GetN(r_gr1) - 1) : X(r_gr1, j) < X(r_gr0, i)

\* C12: DrawRatio of two graphs returns a graph with as many points as the
\* numerator, the i-th x that of the numerator, and the i-th y the quotient
\* of the two evaluations at that x wherever both are non-zero
C12_RatioOfEvaluations ==
  RatioDone =>
    /\ RatioShaped
    /\ \A i \in RatioSamples :
         /\ X(r_ratio, i) = X(r_gr0, i)
         /\ (~NumZeroAt(i) /\ ~DenZeroAt(i)) =>
              Y(r_ratio, i) = RatDiv(Eval(r_gr0, X(r_gr0, i)), Eval(r_gr1, X(r_gr0, i)))

\* a ratio was drawn with a sample where both graphs are non-zero, the
\* denominator is interpolated and the quotient is not 1
C12_Witness ==
  /\ RatioDone
  /\ \E i \in RatioSamples :
       /\ ~NumZeroAt(i) /\ ~DenZeroAt(i)
       /\ Y(r_ratio, i) # Rat(1, 1)
       /\ \A j \in 0..(GetN(r_gr1) - 1) : X(r_gr1, j) # X(r_gr0, i)

\* C13: where the numerator and the denominator both evaluate to 0, the
\* ratio curve's y is +1
C13_BothZeroIsPlusOne ==
  RatioDone =>
    /\ RatioShaped
    /\ \A i \in RatioSamples :
         (NumZeroAt(i) /\ DenZeroAt(i)) => Y(r_ratio, i) = Rat(1, 1)

\* a ratio was drawn with a sample where both graphs evaluate to 0
C13_Witness ==
  /\ RatioDone
  /\ RatioShaped
  /\ \E i \in RatioSamples : NumZeroAt(i) /\ DenZeroAt(i)

\* C14: called with the numerator or the denominator absent, DrawRatio
\* returns no curve, has called Eval on neither graph, and leaves both
\* arguments as they were
C14_AbsentInputGivesNoCurve ==
  [][(r_pc = "call" /\ r_pc' = "done" /\ (r_gr0.null \/ r_gr1.null))
       => /\ r_ratio'.null
          /\ r_evals' = [gr0 |-> 0, gr1 |-> 0]
          /\ r_gr0' = r_gr0
          /\ r_gr1' = r_gr1]_vars

\* DrawRatio returned for a numerator with points and an absent denominator
C14_Witness ==
  /\ r_pc = "done"
  /\ ~r_gr0.null
  /\ GetN(r_gr0) > 0
  /\ r_gr1.null
  /\ r_ratio.null

---------------------------------------------------------------------------
(* Claims about TrimGraph, under SpecTrim *)

\* the decades of the input: the windows <<fp, lp>> of the while loop
RECURSIVE DecadesFrom(_, _)
DecadesFrom(gr, fp) ==
  LET lp == ScanLast(gr, fp, fp)
  IN  {<<fp, lp>>} \cup (IF lp = GetN(gr) - 1 THEN {} ELSE DecadesFrom(gr, lp + 1))
Decades(gr) == IF GetN(gr) = 0 THEN {} ELSE DecadesFrom(gr, 0)

\* the points of the decade w within a factor of 10 of its first x, that
\* first point left out as the code's own count ndec leaves it out
InDecade(gr, w) ==
  {i \in w[1]..w[2] : X(gr, i) > X(gr, w[1]) /\ X(gr, i) <= 10 * X(gr, w[1])}

\* the points the call kept
KeptIdx == {i \in 0..(GetN(t_gr) - 1) : ~t_remv[i + 1]}

\* the x of the graph are positive and strictly increasing, as energies are
IsEnergyCurve(gr) ==
  /\ \A i \in 0..(GetN(gr) - 1) : X(gr, i) > 0
  /\ \A i \in 0..(GetN(gr) - 2) : X(gr, i) < X(gr, i + 1)

\* C4 as stated: after TrimGraph(gr, K) with K > 0 every decade of the input
\* contributes at most K points to the output (here for the curves of
\* positive, strictly increasing x alone, and not counting a decade's first
\* point)
C4_AtMostKPerDecade ==
  (t_pc = "done" /\ ~t_gr.null /\ t_K > 0 /\ IsEnergyCurve(t_gr)) =>
    \A w \in Decades(t_gr) : Cardinality(InDecade(t_gr, w) \cap KeptIdx) <= t_K

\* C15 as stated: after TrimGraph(gr, K) on a curve with points and K > 0,
\* every kept point of a decade of more than K points has a decade-local
\* index (0 at the decade's first point) that is a multiple of
\* floor(count / K), and the points of a decade of at most K points are all
\* kept; count is the decade's point count as the code takes it, ndec
C15_KeptOnStrideMultiples ==
  (t_pc = "done" /\ ~t_gr.null /\ GetN(t_gr) > 0 /\ t_K > 0) =>
    \A w \in Decades(t_gr) :
      LET count == Cardinality(InDecade(t_gr, w))
      IN  IF count > t_K
            THEN \A i \in (w[1]..w[2]) \cap KeptIdx : (i - w[1]) % (count \div t_K) = 0
            ELSE (w[1]..w[2]) \subseteq KeptIdx

\* C5 as stated: on a present but empty curve TrimGraph reads no point of the
\* input, does not fail, and what it returns is an empty curve
C5_EmptyCurveNotRead ==
  (~t_gr.null /\ GetN(t_gr) = 0) =>
    /\ ~t_oob
    /\ t_pc # "crash"
    /\ t_pc = "done" => (~t_out.null /\ GetN(t_out) = 0)

\* C6 as stated: for K <= 0 TrimGraph computes no stride and produces no
\* trimmed curve (here for the curves that have points alone)
C6_NonPositiveKRejected ==
  (~t_gr.null /\ GetN(t_gr) > 0 /\ t_K <= 0) =>
    /\ t_rates = {}
    /\ t_pc = "done" => t_out.null

\* every decade of the curve holds at most K points
Sparse(gr, K) == \A w \in Decades(gr) : Cardinality(InDecade(gr, w)) <= K

\* C16: when TrimGraph(gr, K) returns for a curve whose decades hold at most
\* K points each, what it returns has the points of gr in the same order;
\* and trimming what TrimGraph(gr, K) returned once more, when that is as
\* sparse, returns the same points again
C16_SparseCurveUnchanged ==
  (t_pc = "done" /\ ~t_gr.null) =>
    /\ Sparse(t_gr, t_K) => (~t_out.null /\ t_out.pts = t_gr.pts)
    /\ (t_K > 0 /\ ~t_out.null /\ GetN(t_out) > 0 /\ Sparse(t_out, t_K)) =>
         TrimGraph(t_out, t_K) = t_out

\* TrimGraph returned for a curve of several decades, one of them holding
\* exactly K points
C16_Witness ==
  /\ t_pc = "done"
  /\ ~t_gr.null
  /\ t_K > 0
  /\ Sparse(t_gr, t_K)
  /\ Cardinality(Decades(t_gr)) > 1
  /\ \E w \in Decades(t_gr) : Cardinality(InDecade(t_gr, w)) = t_K
  /\ t_out.pts = t_gr.pts

\* a is a subsequence of b: the elements of a from i on are found, in their
\* order, among the elements of b from j on
RECURSIVE IsSubseqFrom(_, _, _, _)
IsSubseqFrom(a, b, i, j) ==
  IF i > Len(a) THEN TRUE
  ELSE LET hits == {k \in j..Len(b) : b[k] = a[i]}
       IN  IF hits = {} THEN FALSE
           ELSE IsSubseqFrom(a, b, i + 1, (CHOOSE k \in hits : \A h \in hits : k <= h) + 1)

\* C17: no step of TrimGraph changes the input curve, and the curve it
\* returns for an input that is not null holds points of the input in the
\* order of the input
C17_InputKeptOutputSubsequence ==
  [][/\ t_gr' = t_gr
     /\ (t_pc # "done" /\ t_pc' = "done" /\ ~t_gr.null) =>
          (~t_out'.null /\ IsSubseqFrom(t_out'.pts, t_gr.pts, 1, 1))]_vars

\* TrimGraph returned a curve that keeps several points and drops others
C17_Witness ==
  /\ t_pc = "done"
  /\ ~t_gr.null
  /\ ~t_out.null
  /\ GetN(t_out) > 1
  /\ GetN(t_out) < GetN(t_gr)

---------------------------------------------------------------------------
(* Claims about MultiGraph, under SpecMultiGraph *)

\* the graph object carries the colour and the marker of insertion index j
HasStyleOfIndex(g, j) ==
  /\ mg_attr[g].MarkerColor = colors[(j % 10) + 1]
  /\ mg_attr[g].LineColor = colors[(j % 10) + 1]
  /\ mg_attr[g].MarkerStyle = markers[(j \div 10) + 1]

\* the last index at which the graph object of index i was added
LastIndexOf(i) ==
  CHOOSE j \in i..(NGraphs - 1) :
    /\ GetGraph(j) = GetGraph(i)
    /\ \A k \in (j + 1)..(NGraphs - 1) : GetGraph(k) # GetGraph(i)

\* C7 as stated: for every i < NGraphs() the graph GetGraph(i) returns
\* carries the style of its own insertion index i, also when the same graph
\* object was added at more than one index
C7_StyleOfOwnIndex ==
  \A i \in 0..(NGraphs - 1) :
    GetGraph(i) # NullPtr => HasStyleOfIndex(GetGraph(i), i)

\* C7 as amended: for every i < NGraphs() the graph GetGraph(i) returns
\* carries the style of the last insertion index at which that graph object
\* was added, which is i when the object was not added again after i
C7_StyleOfLastIndex ==
  \A i \in 0..(NGraphs - 1) :
    GetGraph(i) # NullPtr => HasStyleOfIndex(GetGraph(i), LastIndexOf(i))

\* the graph object of index 0 was added again at index 10, where the
\* marker is another one
C7_Witness ==
  /\ NGraphs = 11
  /\ GetGraph(0) = GetGraph(10)
  /\ GetGraph(0) # NullPtr

\* C8 as stated, for MultiGraph::AddGraph: handed a null graph it is a no-op
\* that does not dereference it, so that no entry of the aggregator is null
\* and the process is not ended by it
C8_NullGraphIsNoOp ==
  /\ mg_pc # "crash"
  /\ \A i \in 0..(NGraphs - 1) : GetGraph(i) # NullPtr

\* the graph object the last AddGraph call added, and its insertion index
LastIndex == NGraphs - 1
LastAdded == mg_mgraph[NGraphs]

\* C18: the AddGraph call that makes the insertion of index i sets on the
\* added graph the marker markers[i div 10], the marker and line colour
\* colors[i mod 10], marker size 1, line width 2 and line style 1, a style
\* that is a function of i alone: index 0 gets colour 1 and marker 3, index 9
\* colour 40 and marker 3, index 10 colour 1 and marker 4
C18_StyleOfInsertionIndex ==
  (mg_pc = "run" /\ NGraphs > 0) =>
    /\ mg_attr[LastAdded] =
         [MarkerSize |-> 1, MarkerColor |-> colors[(LastIndex % 10) + 1],
          MarkerStyle |-> markers[(LastIndex \div 10) + 1],
          LineColor |-> colors[(LastIndex % 10) + 1], LineWidth |-> 2, LineStyle |-> 1]
    /\ LastIndex = 0 => (mg_attr[LastAdded].MarkerColor = 1 /\ mg_attr[LastAdded].MarkerStyle = 3)
    /\ LastIndex = 9 => (mg_attr[LastAdded].MarkerColor = 40 /\ mg_attr[LastAdded].MarkerStyle = 3)
    /\ LastIndex = 10 => (mg_attr[LastAdded].MarkerColor = 1 /\ mg_attr[LastAdded].MarkerStyle = 4)

\* a graph object was added at index 10, another one than at index 0
C18_Witness ==
  /\ mg_pc = "run"
  /\ NGraphs = 11
  /\ GetGraph(0) # GetGraph(10)
  /\ mg_attr[GetGraph(10)].MarkerStyle = 4

\* an AddGraph step, and a step that is the call of an accessor
AddGraphStep == mg_mgraph' # mg_mgraph \/ mg_legend_entries' # mg_legend_entries
AccessorStep == mg_ret'.fn # ""

\* C20: every AddGraph call appends its graph and its label behind the
\* entries there are, so that NGraphs() is the number of calls and entry i
\* that of call i + 1; NGraphs() returns the number of entries; GetGraph(i)
\* and GetLegendEntry(i) return entry i for i < NGraphs(), and null and the
\* empty string for every i >= NGraphs(); no accessor changes the aggregator
C20_AccessorsBoundsChecked ==
  [][/\ AddGraphStep =>
          \E c \in AddCalls :
            /\ mg_mgraph' = mg_mgraph \o <<c[2]>>
            /\ mg_legend_entries' = mg_legend_entries \o <<c[1]>>
     /\ AccessorStep =>
          /\ UNCHANGED <<mg_pc, mg_mgraph, mg_legend_entries, mg_attr>>
          /\ Len(mg_mgraph) = Len(mg_legend_entries)
          /\ mg_ret'.fn = "NGraphs" => mg_ret'.n = Len(mg_mgraph)
          /\ mg_ret'.fn = "GetGraph" =>
               mg_ret'.graph = IF mg_ret'.igraph < Len(mg_mgraph)
                                 THEN mg_mgraph[mg_ret'.igraph + 1] ELSE "null"
          /\ mg_ret'.fn = "GetLegendEntry" =>
               mg_ret'.label = IF mg_ret'.igraph < Len(mg_legend_entries)
                                 THEN mg_legend_entries[mg_ret'.igraph + 1] ELSE ""]_vars

\* GetGraph was called with an index behind the last entry of an aggregator
\* that has entries
C20_Witness ==
  /\ mg_ret.fn = "GetGraph"
  /\ NGraphs > 1
  /\ mg_ret.igraph >= NGraphs
  /\ mg_ret.graph = "null"

---------------------------------------------------------------------------
(* Claims about MultiGraph::FormatGraph, under SpecFormat *)

\* the colour and the marker of the tables for the index i
StylePair(i) == <<colors[(i % 10) + 1], markers[(i \div 10) + 1]>>

\* C19: for the insertion indices 0..139 the colour is an entry of the 10
\* colours and the marker an entry of the 14 markers, the ones of the index,
\* and no other index of 0..139 has the same pair of colour and marker
C19_StylesInTableAndDistinct ==
  (mg_pc = "run" /\ NGraphs \in 1..140) =>
    /\ (LastIndex % 10) + 1 \in 1..Len(colors)
    /\ (LastIndex \div 10) + 1 \in 1..Len(markers)
    /\ Len(colors) = 10
    /\ Len(markers) = 14
    /\ <<mg_attr[LastAdded].MarkerColor, mg_attr[LastAdded].MarkerStyle>> = StylePair(LastIndex)
    /\ \A j \in 0..139 :
         j # LastIndex =>
           StylePair(j) # <<mg_attr[LastAdded].MarkerColor, mg_attr[LastAdded].MarkerStyle>>

\* the insertion of index 139 was made: the last colour, the last marker
C19_Witness ==
  /\ mg_pc = "run"
  /\ NGraphs = 140
  /\ mg_attr[LastAdded].MarkerColor = 40
  /\ mg_attr[LastAdded].MarkerStyle = 30

---------------------------------------------------------------------------
(* Claims about a run of gxscomp, under Spec *)

\* a step that is one Draw(plot, title) call, and the curves the two
\* directories hold under the name it is called with
DrawCall == pc = "draw" /\ todo # <<>> /\ todo' = Tail(todo)
CurrCurve == IF Head(todo) \in DOMAIN gDirCurr.content
               THEN gDirCurr.content[Head(todo)] ELSE NullGraph
RefCurve == IF ~gDirRef0.null /\ Head(todo) \in DOMAIN gDirRef0.content
              THEN gDirRef0.content[Head(todo)] ELSE NullGraph
NoPage == gPS'.NewPage = gPS.NewPage /\ pages' = pages
OnePage == gPS'.NewPage = gPS.NewPage + 1 /\ pages' = Append(pages, <<idir, Head(todo)>>)
RunContinues == pc' \in {"draw", "loop"}

\* C3 as stated: a Draw call for a category with no curve in the current
\* directory emits no page and the run continues, whether or not the
\* reference directory has a curve of that name (the reference curve, where
\* there is one, has points).
C3_CurrAbsentNoPage ==
  [][(DrawCall /\ CurrCurve.null /\ (RefCurve.null \/ GetN(RefCurve) > 0))
       => (NoPage /\ RunContinues)]_vars

\* C3, amended: a Draw call for a category with no curve in the current
\* directory emits no page when the reference directory has no curve of that
\* name either (or there is no reference directory), and emits one page when
\* the reference directory has a curve of that name with points; the run
\* continues in both cases.
C3_NoPageOnlyWhenBothAbsent ==
  [][(DrawCall /\ CurrCurve.null)
       => /\ RefCurve.null => (NoPage /\ RunContinues)
          /\ (~RefCurve.null /\ GetN(RefCurve) > 0) => (OnePage /\ RunContinues)]_vars

\* a Draw call has just paged a category that only the reference has
C3_Witness ==
  /\ last.plot # ""
  /\ last.curr.null
  /\ ~last.ref.null
  /\ last.paged
  /\ pages # <<>>
  /\ pages[Len(pages)][2] = last.plot

\* C9 as stated: within one directory no category name is paged more than
\* once, and the pages are in the order of the Draw calls.
C9_OnePagePerCategory ==
  \A i, j \in 1..Len(pages) : pages[i] = pages[j] => i = j

\* C10 as stated: between Draw calls, and after the last one, no trimmed
\* reference curve and no ratio curve of an earlier page is live.
C10_NoLiveTemporaries ==
  pc \in {"draw", "loop", "done"} => (live.trim = 0 /\ live.ratio = 0)

\* the commas of an argument, and the file name it gives: what stands before
\* its first comma
CommaCount(arg) == Cardinality({i \in 1..Len(arg) : arg[i] = ","})
FilePart(arg) ==
  IF CommaCount(arg) = 0 THEN arg
  ELSE SubSeq(arg, 1, (CHOOSE i \in 1..Len(arg) : arg[i] = "," /\ \A j \in 1..(i - 1) : arg[j] # ",") - 1)
BadFileOpt(opt) ==
  opt.given /\ (FilePart(opt.arg) \notin AccessibleFiles \/ CommaCount(opt.arg) > 1)
\* the command line has a configuration error
ConfigError(c) == ~c.f.given \/ BadFileOpt(c.f) \/ BadFileOpt(c.r)

\* C11 as stated: with -f missing, the -f or the -r file inaccessible, or a
\* -f/-r argument of more than one comma, the run ends in GetCommandLineArgs
\* by exit(1): Init, MakePlots and End never run and no output file is opened.
C11_ConfigErrorIsFatal ==
  ConfigError(cmd) =>
    /\ pc \in {"main", "exit"}
    /\ ~gPS.open
    /\ gPS.NewPage = 0
    /\ gPS.Close = 0

\* C21 as stated asks at least this: a run whose command line parsed (Init
\* has opened the output) does not stop short of End, whatever the
\* directories and curves of the two files. It stops short where the process
\* is ended or spins inside a Draw call or inside DirNameToTarget.
C21_ParsedRunNotStopped ==
  gPS.NewPage > 0 => pc \notin {"crash", "hang", "abort"}

\* C22 as stated: at the end of a run in which every Draw call returned
\* before drawing (or no directory was there to plot), the pages opened
\* after the title page are as many as the categories drawn: none.
C22_OnlyTitlePage ==
  (pc = "done" /\ pages = <<>>) => gPS.NewPage - 1 = Len(pages)

\* C23 as stated: a page has a ratio curve if and only if -r was given; and
\* without -r, gOptHaveRef is false, the reference file is not opened and
\* DrawRatio is not called.
C23_RatioCurveIffReference ==
  /\ last.paged => (~last.ratio.null <=> cmd.r.given)
  /\ (pc # "main" /\ ~cmd.r.given) =>
       (~gOptHaveRef /\ gXSecFile_ref0.null /\ ~last.called)

\* C23, amended: without -r, gOptHaveRef is false, the reference file is not
\* opened and DrawRatio is not called; with -r, DrawRatio is called for every
\* page drawn, and it gives a ratio curve exactly for the pages whose
\* category has a curve in both the current and the reference directory.
C23_RatioCalledIffReference ==
  /\ last.paged =>
       /\ last.called <=> cmd.r.given
       /\ ~last.ratio.null <=> (cmd.r.given /\ ~last.curr.null /\ ~last.ref.null)
  /\ ~last.paged => (~last.called /\ last.ratio.null)
  /\ (pc # "main" /\ ~cmd.r.given) =>
       (~gOptHaveRef /\ gXSecFile_ref0.null /\ ~last.called /\ live.ratio = 0)

\* with -r, a page for a category the reference directory lacks: DrawRatio
\* was called and gave no curve
C23_Witness ==
  /\ last.paged
  /\ cmd.r.given
  /\ gOptHaveRef
  /\ last.called
  /\ ~last.curr.null
  /\ last.ref.null
  /\ last.ratio.null

\* the label an argument gives: what stands after its comma
LabelPart(arg) == SubSeq(arg, Len(FilePart(arg)) + 2, Len(arg))
\* -f or -r was parsed into the file name and the label of its argument,
\* the label being dflt where the argument has no comma
ParsedAs(opt, name, label, dflt) ==
  /\ name = FilePart(opt.arg)
  /\ label = (IF CommaCount(opt.arg) = 0 THEN dflt ELSE LabelPart(opt.arg))
\* the run went on past GetCommandLineArgs
Accepted == pc \notin {"main", "exit", "abort"}

\* C24 as stated: after GetCommandLineArgs, '-f path,label' and '-f path' have
\* given the current file and label (default "current"), '-r' likewise the
\* reference file and label (default "reference"), the output name is the
\* argument of -o or "xsec.ps", and no run goes on with a -f or -r argument
\* of more than one comma.
C24_ArgsParsedOrRejected ==
  Accepted =>
    /\ ParsedAs(cmd.f, gOptXSecFilename_curr, gLabelCurr, s_current)
    /\ cmd.r.given => ParsedAs(cmd.r, gOptXSecFilename_ref0, gLabelRef0, s_reference)
    /\ gOptOutputFilename = (IF cmd.o.given THEN cmd.o.arg ELSE s_xsec_ps)
    /\ CommaCount(cmd.f.arg) <= 1
    /\ CommaCount(cmd.r.arg) <= 1

---------------------------------------------------------------------------
(* Claims about the directory name, under SpecProbe *)

\* the directory name has the token
HasToken(t) == Find(gDirName, t) # npos
\* the directory name has the antineutrino token of some flavour
HasBarToken == \E t \in {s_nu_e, s_nu_mu, s_nu_tau} : HasToken(t \o s_bar)
\* the probe globals stand for the neutrino, or the antineutrino, of pdg code c
ProbeIsNu(c) == gCurrProbePdg = c /\ gCurrProbeIsNu /\ ~gCurrProbeIsNuBar
ProbeIsNuBar(c) == gCurrProbePdg = c /\ gCurrProbeIsNuBar /\ ~gCurrProbeIsNu

---------------------------------------------------------------------------
(* Claims about the decades of TrimGraph, under SpecTrim *)

\* C26 as stated (here for the curves of positive, strictly increasing x
\* alone): of a trimmed curve, every window <<fp, lp>> of the while loop has
\* only points with x[fp] <= x <= 10 * x[fp], the first window starts at the
\* first point, and every point is in one window and no more.
C26_WindowWithinFactorTen ==
  (t_pc = "done" /\ ~t_gr.null /\ GetN(t_gr) > 0 /\ t_K > 0 /\ IsEnergyCurve(t_gr)) =>
    /\ \A w \in Decades(t_gr) : \A i \in w[1]..w[2] :
         X(t_gr, w[1]) <= X(t_gr, i) /\ X(t_gr, i) <= 10 * X(t_gr, w[1])
    /\ \E w \in Decades(t_gr) : w[1] = 0
    /\ \A i \in 0..(GetN(t_gr) - 1) :
         Cardinality({w \in Decades(t_gr) : w[1] <= i /\ i <= w[2]}) = 1

---------------------------------------------------------------------------
(* Claims about the plots asked for, under SpecProbe *)

\* the category names with the target token _n: on a neutron
NeutronCategories ==
  {"tot_cc_n", "tot_nc_n", "qel_cc_n", "qel_nc_n", "res_cc_n", "res_nc_n",
   "res_cc_n_1232P33", "res_cc_n_1535S11", "res_cc_n_1520D13",
   "res_cc_n_1650S11", "res_cc_n_1700D13", "res_cc_n_1675D15",
   "res_cc_n_1620S31", "res_cc_n_1700D33", "res_cc_n_1440P11",
   "res_cc_n_1720P13", "res_cc_n_1680F15", "res_cc_n_1910P31",
   "res_cc_n_1920P33", "res_cc_n_1905F35", "res_cc_n_1950F37",
   "res_cc_n_1710P11", "res_nc_n_1232P33", "res_nc_n_1535S11",
   "res_nc_n_1520D13", "res_nc_n_1650S11", "res_nc_n_1700D13",
   "res_nc_n_1675D15", "res_nc_n_1620S31", "res_nc_n_1700D33",
   "res_nc_n_1440P11", "res_nc_n_1720P13", "res_nc_n_1680F15",
   "res_nc_n_1910P31", "res_nc_n_1920P33", "res_nc_n_1905F35",
   "res_nc_n_1950F37", "res_nc_n_1710P11", "dis_cc_n", "dis_nc_n",
   "dis_cc_n_ubarsea", "dis_cc_n_dval", "dis_cc_n_dsea", "dis_cc_n_ssea",
   "dis_cc_n_sbarsea", "dis_cc_n_dbarsea", "dis_cc_n_uval",
   "dis_cc_n_usea", "dis_nc_n_sbarsea", "dis_nc_n_ubarsea",
   "dis_nc_n_dbarsea", "dis_nc_n_dval", "dis_nc_n_dsea", "dis_nc_n_uval",
   "dis_nc_n_usea", "dis_nc_n_ssea", "dis_cc_n_dval_charm",
   "dis_cc_n_dsea_charm", "dis_cc_n_ssea_charm", "dis_cc_n_dbarsea_charm",
   "dis_cc_n_sbarsea_charm"}
\* the category names with the target token _p: on a proton
ProtonCategories ==
  {"tot_cc_p", "tot_nc_p", "qel_cc_p", "qel_nc_p", "res_cc_p", "res_nc_p",
   "res_cc_p_1232P33", "res_cc_p_1535S11", "res_cc_p_1520D13",
   "res_cc_p_1650S11", "res_cc_p_1700D13", "res_cc_p_1675D15",
   "res_cc_p_1620S31", "res_cc_p_1700D33", "res_cc_p_1440P11",
   "res_cc_p_1720P13", "res_cc_p_1680F15", "res_cc_p_1910P31",
   "res_cc_p_1920P33", "res_cc_p_1905F35", "res_cc_p_1950F37",
   "res_cc_p_1710P11", "res_nc_p_1232P33", "res_nc_p_1535S11",
   "res_nc_p_1520D13", "res_nc_p_1650S11", "res_nc_p_1700D13",
   "res_nc_p_1675D15", "res_nc_p_1620S31", "res_nc_p_1700D33",
   "res_nc_p_1440P11", "res_nc_p_1720P13", "res_nc_p_1680F15",
   "res_nc_p_1910P31", "res_nc_p_1920P33", "res_nc_p_1905F35",
   "res_nc_p_1950F37", "res_nc_p_1710P11", "dis_cc_p", "dis_nc_p",
   "dis_cc_p_ubarsea", "dis_cc_p_dval", "dis_cc_p_dsea", "dis_cc_p_ssea",
   "dis_nc_p_sbarsea", "dis_nc_p_ubarsea", "dis_nc_p_dbarsea",
   "dis_nc_p_dval", "dis_nc_p_dsea", "dis_nc_p_uval", "dis_nc_p_usea",
   "dis_nc_p_ssea", "dis_cc_p_dval_charm", "dis_cc_p_dsea_charm",
   "dis_cc_p_ssea_charm", "dis_cc_p_dbarsea_charm",
   "dis_cc_p_sbarsea_charm"}

\* C27 as stated: of the Draw calls MakePlotsCurrDir makes for a directory,
\* those for a neutron category are made only with gCurrTargetHasN true, and
\* those for a proton category only with gCurrTargetHasP true.
C27_TargetCategoriesGuarded ==
  pc = "draw" =>
    \A i \in 1..Len(todo) :
      /\ todo[i] \in NeutronCategories => gCurrTargetHasN
      /\ todo[i] \in ProtonCategories => gCurrTargetHasP

---------------------------------------------------------------------------
(* Claims about the loop of TrimGraph, under SpecTrim *)

\* a step that is one iteration of while(1) on a curve with points, K > 0
DecadeStep ==
  /\ t_pc = "loop"
  /\ ~t_gr.null
  /\ GetN(t_gr) > 0
  /\ t_K > 0
  /\ <<t_pc, t_fp, t_lp, t_remv, t_out>>' # <<t_pc, t_fp, t_lp, t_remv, t_out>>

\* C28: on a curve with points and K > 0, whatever its x, an iteration of
\* the while loop starts at a point of the curve and either went on to a
\* later fp that is still a point of the curve, or scanned the last point and
\* left the loop; it does not end otherwise.
C28_DecadeLoopAdvances ==
  [][DecadeStep =>
       /\ 0 <= t_fp /\ t_fp < GetN(t_gr)
       /\ \/ t_pc' = "loop" /\ t_fp < t_fp' /\ t_fp' < GetN(t_gr)
          \/ t_pc' = "done" /\ t_lp' = GetN(t_gr) - 1]_vars

\* a curve of repeated, falling, zero and negative x was trimmed in three
\* iterations
C28_Witness ==
  /\ t_pc = "done"
  /\ t_K > 0
  /\ GetN(t_gr) = 4
  /\ X(t_gr, 0) = -1
  /\ X(t_gr, 1) = -1
  /\ X(t_gr, 2) = 0
  /\ X(t_gr, 3) = -1
  /\ Cardinality(Decades(t_gr)) >= 3
  /\ ~t_oob

---------------------------------------------------------------------------
(* Claims about the globals of a directory, under Spec *)

\* the reference file has a directory of the name
RefHas(name) == \E i \in 1..Len(gXSecFile_ref0.keys) : gXSecFile_ref0.keys[i] = name

\* C29: while the categories of a directory are plotted, whatever
\* directories were plotted before it, gDirName is the name of that
\* directory, gDirCurr is the current file's directory of that name, gDirRef0
\* is the reference file's directory of that name and null where it has none
\* (or no reference file is open), and the probe and target globals are what
\* DirNameToProbe and DirNameToTarget find for that name.
C29_GlobalsOfThisDirectory ==
  pc = "draw" =>
    /\ gDirName = gXSecFile_curr.keys[idir + 1]
    /\ ~gDirCurr.null
    /\ gDirCurr.content = gXSecFile_curr.content
    /\ gDirRef0.null <=> ~RefHas(gDirName)
    /\ ~gDirRef0.null => gDirRef0.content = gXSecFile_ref0.content
    /\ gCurrProbePdg = ProbeOf(gDirName).pdg
    /\ gCurrProbeLbl = ProbeOf(gDirName).label
    /\ gCurrProbeIsNu = (gCurrProbePdg \in {kPdgNuE, kPdgNuMu, kPdgNuTau})
    /\ gCurrProbeIsNuBar = (gCurrProbePdg \in {kPdgAntiNuE, kPdgAntiNuMu, kPdgAntiNuTau})
    /\ [HasP |-> gCurrTargetHasP, HasN |-> gCurrTargetHasN, Lbl |-> gCurrTargetLbl,
        IsFreeNuc |-> gCurrTargetIsFreeNuc] = TargetOf(gDirName, gCurrProbePdg)

\* the second directory, C12, names no probe and is not in the reference
\* file; the first one named a probe and was in the reference file
C29_Witness ==
  /\ pc = "draw"
  /\ idir = 1
  /\ gDirName = s_C12
  /\ gCurrProbePdg = 0
  /\ gCurrProbeLbl = ""
  /\ ~gCurrProbeIsNu
  /\ ~gCurrProbeIsNuBar
  /\ gDirRef0.null
  /\ ~gXSecFile_ref0.null
  /\ RefHas(gXSecFile_curr.keys[1])
  /\ ProbeOf(gXSecFile_curr.keys[1]).pdg # 0

---------------------------------------------------------------------------
(* Claims about vDataSelectionTab, under SpecTab *)

\* a step that makes a dialog, and a step that shows a message box
DialogMade == ndialogs' = ndialogs + 1
MsgBoxShown == nmsgbox' = nmsgbox + 1

====
